---- MODULE Spec2Model ----
(***************************************************************************)
(* A model of the multi-instance Paxos library of src/paxos.go: the        *)
(* acceptor handlers Prepare, Accept and Decide, the proposer loop         *)
(* propose, the application calls Start, Status, Done, Max and Min, the    *)
(* round-number generator generatePNum and the done vector with its        *)
(* garbage collection.                                                      *)
(*                                                                         *)
(* Each handler runs under the peer's mutex and is one atomic action.  The *)
(* proposer holds no lock between its calls, so every call it makes is a   *)
(* step of its own.  A remote call is served and answered, or it returns    *)
(* without a reply; then the request is lost or the network hands it to    *)
(* its addressee at some later time.                                       *)
(***************************************************************************)
EXTENDS Integers, Sequences, FiniteSets, TLC

\* ------------------------------------------------------------------ bounds
\* len(px.peers): the fixed set of peers handed to Make.
N == 3
\* The runs of Spec: concurrent proposers; calls may be lost and a Decide
\* may be held back.
\* The largest instance number the application uses.
MaxSeq == 0
\* The largest reading of a peer's clock: the rounds one peer begins.
MaxClock == 1
\* The number of calls of Start that dispatch a proposer.
MaxTasks == 2
\* The number of proposers running at one time.
MaxActive == 2
\* The number of requests the network holds back at one time.
MaxInFlight == 1

Peers == 0 .. (N - 1)
Values == {"a", "b"}
\* Values are opaque to the library: the first value proposed is called "a".
FirstValue == "a"
\* The nil interface value of a fresh instance's v_a.
Nil == "nil"

\* ------------------------------------------------------------ round numbers
\* Strings are sequences of byte values; digits are 48..57 and "-" is 45.
RECURSIVE FormatInt(_)
FormatInt(n) == IF n < 10 THEN <<48 + n>>
                ELSE FormatInt(n \div 10) \o <<48 + (n % 10)>>

\* strconv.FormatInt(nanoseconds, 10) + "-" + strconv.Itoa(px.me)
generatePNum(t, me) == FormatInt(t) \o <<45>> \o FormatInt(me)

\* Go's < on strings: bytewise lexicographic, a proper prefix is smaller.
RECURSIVE StrLess(_, _)
StrLess(a, b) ==
    IF b = <<>> THEN FALSE
    ELSE IF a = <<>> THEN TRUE
    ELSE IF Head(a) # Head(b) THEN Head(a) < Head(b)
    ELSE StrLess(Tail(a), Tail(b))

\* Go's >= on strings.
StrGeq(a, b) == ~StrLess(a, b)

\* Go's > on strings.
StrGreater(a, b) == StrLess(b, a)

\* ------------------------------------------------------------ instance store
newInstance == [state |-> "Pending", n_p |-> <<>>, n_a |-> <<>>, v_a |-> Nil]

\* px.instances[seq] = x
Put(store, seq, x) ==
    [s \in (DOMAIN store) \cup {seq} |-> IF s = seq THEN x ELSE store[s]]

\* The store with an entry for seq created when absent.
Ensure(store, seq) ==
    IF seq \in DOMAIN store THEN store ELSE Put(store, seq, newInstance)

majority == (N \div 2) + 1

\* ----------------------------------------------------------------- acceptor
\* A Prepare that promises only to a round number above its promise.
PrepareAbove(store, seq, pnum) ==
    LET s1 == Ensure(store, seq)
        ok == StrGreater(pnum, s1[seq].n_p)
        s2 == IF ok THEN Put(s1, seq, [s1[seq] EXCEPT !.n_p = pnum]) ELSE s1
    IN  [store |-> s2,
         Err |-> IF ok THEN "OK" ELSE "Reject",
         AcceptPnum |-> s2[seq].n_a,
         AcceptValue |-> s2[seq].v_a]

\* Prepare: the store after the call and the reply.
Prepare(store, seq, pnum) ==
    LET s1 == Ensure(store, seq)
        ok == StrGeq(pnum, s1[seq].n_p)
        s2 == IF ok THEN Put(s1, seq, [s1[seq] EXCEPT !.n_p = pnum]) ELSE s1
    IN  [store |-> s2,
         Err |-> IF ok THEN "OK" ELSE "Reject",
         AcceptPnum |-> s2[seq].n_a,
         AcceptValue |-> s2[seq].v_a]

\* An Accept that makes the entry it does not find, as Prepare does.
AcceptAnywhere(store, seq, pnum, v) ==
    LET s1 == Ensure(store, seq)
    IN  IF StrGeq(pnum, s1[seq].n_p)
        THEN [store |-> Put(s1, seq,
                            [s1[seq] EXCEPT !.n_p = pnum, !.n_a = pnum, !.v_a = v]),
              Err |-> "OK"]
        ELSE [store |-> s1, Err |-> "Reject"]

\* Accept: the store after the call and the reply.
Accept(store, seq, pnum, v) ==
    IF seq \notin DOMAIN store
    THEN [store |-> store, Err |-> "Reject"]
    ELSE IF StrGeq(pnum, store[seq].n_p)
    THEN [store |-> Put(store, seq,
                        [store[seq] EXCEPT !.n_p = pnum, !.n_a = pnum, !.v_a = v]),
          Err |-> "OK"]
    ELSE [store |-> store, Err |-> "Reject"]

\* A Decide that records the decision and leaves the promise as it was.
DecideKeepsPromise(old, pnum, v) ==
    [old EXCEPT !.v_a = v, !.n_a = pnum, !.state = "Decided"]

\* Decide: the instance written by the handler.
DecideInstance(old, pnum, v) ==
    [old EXCEPT !.v_a = v, !.n_a = pnum, !.n_p = pnum, !.state = "Decided"]

\* Decide: the value the handler leaves in dones[args.Me].
DecideDone(old, senderDone) == senderDone

\* Decide: the store after the call.
DecideStore(store, seq, pnum, v) ==
    LET s1 == Ensure(store, seq)
    IN  Put(s1, seq, DecideInstance(s1[seq], pnum, v))

\* ------------------------------------------------------------------ Min, Max
\* The minimum of a done vector, as the loop of Min computes it.
RECURSIVE MinFrom(_, _, _)
MinFrom(d, i, min) ==
    IF i = N THEN min
    ELSE MinFrom(d, i + 1, IF d[i] < min THEN d[i] ELSE min)

\* A Min that looks at the peer's own slot only.
MinDoneOfSelf(d, me) == d[me]

\* Min, lines 452-457.
MinDone(d, me) == MinFrom(d, 0, d[me])

\* Min: whether the loop over the store deletes the entry of seq.
Forgets(inst, seq, min) == seq <= min /\ inst.state = "Decided"

\* Min: the store after the deletions.
MinStore(store, d, me) ==
    LET min == MinDone(d, me)
        keep == {s \in DOMAIN store : ~Forgets(store[s], s, min)}
    IN  [s \in keep |-> store[s]]

\* Min: the value returned.
Min(d, me) == MinDone(d, me) + 1

\* Max: the loop over the keys of the store, starting from max := 0.
RECURSIVE MaxFrom(_, _)
MaxFrom(keys, max) ==
    IF keys = {} THEN max
    ELSE LET k == CHOOSE x \in keys : TRUE
         IN  MaxFrom(keys \ {k}, IF k > max THEN k ELSE max)

Max(store) == MaxFrom(DOMAIN store, 0)

\* Status: the fate and value read from the store once seq >= Min() held.
StatusRead(store, seq) ==
    IF seq \notin DOMAIN store THEN <<"Pending", Nil>>
    ELSE <<store[seq].state, store[seq].v_a>>

\* Status as one uninterrupted call.
Status(store, d, me, seq) ==
    IF seq < Min(d, me) THEN <<"Forgotten", Nil>>
    ELSE StatusRead(MinStore(store, d, me), seq)

\* -------------------------------------------------------------------- state
VARIABLES
    instances,  \* instances[p]: the instance store of peer p, seq -> instance
    dones,      \* dones[p][i]: the done vector of peer p
    clock,      \* clock[p]: the last reading of peer p's clock
    tasks,      \* tasks[t]: the proposer goroutine t and its local variables
    msgs,       \* requests on the network that no handler has served yet
    started,    \* the pairs <<seq, v>> handed to Start so far
    maxDone,    \* maxDone[p]: the highest argument handed to Done on peer p
    seen,       \* seen[p]: the seqs for which Status returned Decided to p's application
    lim         \* the bounds of the run, fixed by the initial state

vars == <<instances, dones, clock, tasks, msgs, started, maxDone, seen, lim>>

\* The goroutines created so far.
Tasks == DOMAIN tasks

\* The instance numbers the applications use.
Seqs == 0 .. lim.seqs

\* A slot no Start has used yet.
IdleTask == [pc |-> "idle", me |-> 0, seq |-> 0, v |-> Nil, pnum |-> <<>>, i |-> 0,
             acnum |-> 0, maxprenum |-> <<>>, maxacval |-> Nil, accNum |-> 0,
             done |-> -1]

\* The goroutine of Start, about to enter the loop of propose.
NewTask(p, seq, v) == [IdleTask EXCEPT !.pc = "gen", !.me = p, !.seq = seq, !.v = v]

\* The top of the loop: a fresh pnum and the counters of the Prepare round.
TopOfLoop(tk, t) ==
    [tk EXCEPT !.pc = "prepare", !.pnum = generatePNum(t, tk.me), !.i = 0,
               !.acnum = 0, !.maxprenum = <<>>, !.maxacval = tk.v, !.accNum = 0,
               !.done = -1]

\* The reply the proposer holds when a call brought none back.
NoPrepareReply == [Err |-> "Reject", AcceptPnum |-> <<>>, AcceptValue |-> Nil]

\* A proposer that takes the value of every OK reply, accepted or not.
CandidateOfAnyReply(tk, r) ==
    [maxprenum |-> r.AcceptPnum, maxacval |-> r.AcceptValue]

\* A proposer that notes the highest n_a of the replies and keeps its own value.
CandidateOfStart(tk, r) ==
    [maxprenum |-> IF StrGreater(r.AcceptPnum, tk.maxprenum)
                   THEN r.AcceptPnum ELSE tk.maxprenum,
     maxacval |-> tk.maxacval]

\* The candidate kept after one OK reply of Prepare.
Candidate(tk, r) ==
    IF StrGreater(r.AcceptPnum, tk.maxprenum)
    THEN [maxprenum |-> r.AcceptPnum, maxacval |-> r.AcceptValue]
    ELSE [maxprenum |-> tk.maxprenum, maxacval |-> tk.maxacval]

\* A proposer content with one OK reply to Prepare.
PrepareByOne(acnum) == acnum >= 1

\* The round goes on to Accept when acnum reaches a majority.
PrepareOk(acnum) == acnum >= majority

\* One pass of the Prepare loop of propose with reply r, and the end of the loop.
CountPrepare(tk, r) ==
    LET ok == r.Err = "OK"
        acnum == IF ok THEN tk.acnum + 1 ELSE tk.acnum
        c == IF ok THEN Candidate(tk, r)
             ELSE [maxprenum |-> tk.maxprenum, maxacval |-> tk.maxacval]
    IN  IF tk.i < N - 1
        THEN [tk EXCEPT !.i = tk.i + 1, !.acnum = acnum,
                        !.maxprenum = c.maxprenum, !.maxacval = c.maxacval]
        ELSE IF PrepareOk(acnum)
        THEN [tk EXCEPT !.pc = "accept", !.i = 0, !.acnum = 0, !.maxprenum = <<>>,
                        !.maxacval = c.maxacval]
        ELSE [tk EXCEPT !.pc = "status", !.i = 0, !.acnum = 0, !.maxprenum = <<>>,
                        !.maxacval = Nil, !.pnum = <<>>]

\* A sendAccept that waits for every peer.
AcceptByAll(accNum) == accNum >= N

\* sendAccept returns true when accNum reaches a majority.
AcceptOk(accNum) == accNum >= majority

\* One pass of the loop of sendAccept with reply err, and the end of the loop.
CountAccept(tk, err) ==
    LET accNum == IF err = "OK" THEN tk.accNum + 1 ELSE tk.accNum
    IN  IF tk.i < N - 1
        THEN [tk EXCEPT !.i = tk.i + 1, !.accNum = accNum]
        ELSE IF AcceptOk(accNum)
        THEN [tk EXCEPT !.pc = "decargs", !.i = 0, !.accNum = 0]
        ELSE [tk EXCEPT !.pc = "status", !.i = 0, !.accNum = 0,
                        !.maxacval = Nil, !.pnum = <<>>]

\* The goroutine after it left the loop.
Finished(tk) == [IdleTask EXCEPT !.pc = "done", !.me = tk.me, !.seq = tk.seq, !.v = tk.v]

\* The goroutine back at the top of the loop.
Again(tk) == NewTask(tk.me, tk.seq, tk.v)

PrepareMsg(to, tk) ==
    [type |-> "Prepare", to |-> to, seq |-> tk.seq, pnum |-> tk.pnum, v |-> Nil,
     me |-> 0, done |-> -1]

AcceptMsg(to, tk) ==
    [type |-> "Accept", to |-> to, seq |-> tk.seq, pnum |-> tk.pnum,
     v |-> tk.maxacval, me |-> 0, done |-> -1]

\* DecideArgs{Seq: seq, Value: value, PNum: pnum, Me: px.me, Done: px.dones[px.me]}
DecideMsg(to, tk) ==
    [type |-> "Decide", to |-> to, seq |-> tk.seq, pnum |-> tk.pnum,
     v |-> tk.maxacval, me |-> tk.me, done |-> tk.done]

\* The state Make leaves on every peer: empty stores, done vectors of -1.
Make ==
    /\ instances = [p \in Peers |-> <<>>]
    /\ dones = [p \in Peers |-> [i \in Peers |-> -1]]
    /\ clock = [p \in Peers |-> 0]
    /\ tasks = <<>>
    /\ msgs = {}
    /\ started = {}
    /\ maxDone = [p \in Peers |-> -1]
    /\ seen = [p \in Peers |-> {}]

Init ==
    /\ Make
    /\ lim = [seqs |-> MaxSeq, tasks |-> MaxTasks, active |-> MaxActive,
              clock |-> MaxClock, inflight |-> MaxInFlight, held |-> {"Decide"},
              loss |-> TRUE, reach |-> {}]

\* ------------------------------------------------------------------ actions
\* The goroutines inside propose.
Running == {t \in Tasks : tasks[t].pc # "done"}

\* Start(seq, v) on peer p: Min() runs first; a goroutine is created unless seq < Min().
Start(p, seq, v) ==
    /\ Len(tasks) < lim.tasks
    /\ clock[p] < lim.clock
    /\ Cardinality(Running) < lim.active
    /\ v = FirstValue \/ started # {}
    /\ started' = started \cup {<<seq, v>>}
    /\ instances' = [instances EXCEPT ![p] = MinStore(instances[p], dones[p], p)]
    /\ tasks' = IF seq < Min(dones[p], p) THEN tasks
                ELSE Append(tasks, NewTask(p, seq, v))
    /\ UNCHANGED <<dones, clock, msgs, maxDone, seen, lim>>

\* A call that returns without a reply: the request is lost, or the network
\* holds it back and hands it to its addressee later.  lim says whether
\* requests are lost, which requests are held back and how many at a time,
\* and which peers answer every call.
Unanswered(m) ==
    \/ /\ lim.loss
       /\ m.to \notin lim.reach
       /\ UNCHANGED msgs
    \/ /\ Cardinality(msgs) < lim.inflight
       /\ m.to \notin lim.reach
       /\ m.type \in lim.held
       /\ msgs' = msgs \cup {m}

\* propose, lines 287-292: the clock is read and the round starts.  The clock
\* has moved on since the last reading of this peer.
Generate(t) ==
    /\ tasks[t].pc = "gen"
    /\ \E now \in (clock[tasks[t].me] + 1) .. lim.clock :
          /\ clock' = [clock EXCEPT ![tasks[t].me] = now]
          /\ tasks' = [tasks EXCEPT ![t] = TopOfLoop(tasks[t], now)]
    /\ UNCHANGED <<instances, dones, msgs, started, maxDone, seen, lim>>

\* Two goroutines of one peer are at line 287 together and read the clock
\* within one tick of it: time.Now() gives both the same reading.
GenerateTogether(t, u) ==
    /\ t < u
    /\ tasks[t].pc = "gen" /\ tasks[u].pc = "gen"
    /\ tasks[t].me = tasks[u].me
    /\ \E now \in (clock[tasks[t].me] + 1) .. lim.clock :
          /\ clock' = [clock EXCEPT ![tasks[t].me] = now]
          /\ tasks' = [tasks EXCEPT ![t] = TopOfLoop(tasks[t], now),
                                    ![u] = TopOfLoop(tasks[u], now)]
    /\ UNCHANGED <<instances, dones, msgs, started, maxDone, seen, lim>>

\* propose, lines 293-308: one pass of the Prepare loop.  The local acceptor is
\* called directly; a remote peer either serves the request and answers, or the
\* call returns without a reply and the request stays on the network.
SendPrepare(t) ==
    LET tk == tasks[t]
        r == Prepare(instances[tk.i], tk.seq, tk.pnum)
    IN  /\ tk.pc = "prepare"
        /\ \/ /\ instances' = [instances EXCEPT ![tk.i] = r.store]
              /\ tasks' = [tasks EXCEPT ![t] = CountPrepare(tk, r)]
              /\ UNCHANGED msgs
           \/ /\ tk.i # tk.me
              /\ Unanswered(PrepareMsg(tk.i, tk))
              /\ tasks' = [tasks EXCEPT ![t] = CountPrepare(tk, NoPrepareReply)]
              /\ UNCHANGED instances
        /\ UNCHANGED <<dones, clock, started, maxDone, seen, lim>>

\* sendAccept, lines 260-272: one pass of the Accept loop.
SendAccept(t) ==
    LET tk == tasks[t]
        r == Accept(instances[tk.i], tk.seq, tk.pnum, tk.maxacval)
    IN  /\ tk.pc = "accept"
        /\ \/ /\ instances' = [instances EXCEPT ![tk.i] = r.store]
              /\ tasks' = [tasks EXCEPT ![t] = CountAccept(tk, r.Err)]
              /\ UNCHANGED msgs
           \/ /\ tk.i # tk.me
              /\ Unanswered(AcceptMsg(tk.i, tk))
              /\ tasks' = [tasks EXCEPT ![t] = CountAccept(tk, "")]
              /\ UNCHANGED instances
        /\ UNCHANGED <<dones, clock, started, maxDone, seen, lim>>

\* propose, lines 323-324: decargs is built; dones[me] is read without the mutex.
BuildDecide(t) ==
    /\ tasks[t].pc = "decargs"
    /\ tasks' = [tasks EXCEPT ![t].pc = "decide",
                              ![t].done = dones[tasks[t].me][tasks[t].me]]
    /\ UNCHANGED <<instances, dones, clock, msgs, started, maxDone, seen, lim>>

\* The Decide handler on peer p.
HandleDecide(p, m) ==
    /\ instances' = [instances EXCEPT ![p] = DecideStore(instances[p], m.seq, m.pnum, m.v)]
    /\ dones' = [dones EXCEPT ![p][m.me] = DecideDone(dones[p][m.me], m.done)]

\* propose, lines 325-335: one pass of the Decide loop, then break.
SendDecide(t) ==
    LET tk == tasks[t]
        next == IF tk.i < N - 1 THEN [tk EXCEPT !.i = tk.i + 1] ELSE Finished(tk)
    IN  /\ tk.pc = "decide"
        /\ tasks' = [tasks EXCEPT ![t] = next]
        /\ \/ /\ tk.i = tk.me
              /\ HandleDecide(tk.me, DecideMsg(tk.me, tk))
              /\ UNCHANGED msgs
           \/ /\ tk.i # tk.me
              /\ HandleDecide(tk.i, DecideMsg(tk.i, tk))
              /\ UNCHANGED msgs
           \/ /\ tk.i # tk.me
              /\ Unanswered(DecideMsg(tk.i, tk))
              /\ UNCHANGED <<instances, dones>>
        /\ UNCHANGED <<clock, started, maxDone, seen, lim>>

\* propose, line 357, first half: Status calls Min(), which collects garbage.
CheckMin(t) ==
    LET tk == tasks[t]
    IN  /\ tk.pc = "status"
        /\ instances' = [instances EXCEPT ![tk.me] = MinStore(instances[tk.me], dones[tk.me], tk.me)]
        /\ tasks' = [tasks EXCEPT ![t] =
                        IF tk.seq < Min(dones[tk.me], tk.me) THEN Again(tk)
                        ELSE [tk EXCEPT !.pc = "read"]]
        /\ UNCHANGED <<dones, clock, msgs, started, maxDone, seen, lim>>

\* propose, lines 357-360, second half: Status reads the store without the mutex.
CheckRead(t) ==
    LET tk == tasks[t]
    IN  /\ tk.pc = "read"
        /\ tasks' = [tasks EXCEPT ![t] =
                        IF StatusRead(instances[tk.me], tk.seq)[1] = "Decided"
                        THEN Finished(tk) ELSE Again(tk)]
        /\ UNCHANGED <<instances, dones, clock, msgs, started, maxDone, seen, lim>>

\* The network hands a request to its addressee; nobody waits for the reply.
Deliver(m) ==
    /\ m \in msgs
    /\ msgs' = msgs \ {m}
    /\ \/ /\ m.type = "Prepare"
          /\ instances' = [instances EXCEPT ![m.to] = Prepare(instances[m.to], m.seq, m.pnum).store]
          /\ UNCHANGED dones
       \/ /\ m.type = "Accept"
          /\ instances' = [instances EXCEPT ![m.to] = Accept(instances[m.to], m.seq, m.pnum, m.v).store]
          /\ UNCHANGED dones
       \/ /\ m.type = "Decide"
          /\ HandleDecide(m.to, m)
    /\ UNCHANGED <<clock, tasks, started, maxDone, seen, lim>>

\* Done(seq) on peer p.  The application is done with seq once it has seen
\* every instance up to seq decided.
Done(p, seq) ==
    /\ \A s \in 0 .. seq : s \in seen[p]
    /\ dones' = [dones EXCEPT ![p][p] = IF seq > dones[p][p] THEN seq ELSE dones[p][p]]
    /\ maxDone' = [maxDone EXCEPT ![p] = IF seq > maxDone[p] THEN seq ELSE maxDone[p]]
    /\ UNCHANGED <<instances, clock, tasks, msgs, started, seen, lim>>

\* Min() called by the application of peer p.
CallMin(p) ==
    /\ instances' = [instances EXCEPT ![p] = MinStore(instances[p], dones[p], p)]
    /\ UNCHANGED <<dones, clock, tasks, msgs, started, maxDone, seen, lim>>

\* Status(seq) called by the application of peer p.
CallStatus(p, seq) ==
    /\ instances' = [instances EXCEPT ![p] = MinStore(instances[p], dones[p], p)]
    /\ seen' = IF Status(instances[p], dones[p], p, seq)[1] = "Decided"
               THEN [seen EXCEPT ![p] = seen[p] \cup {seq}] ELSE seen
    /\ UNCHANGED <<dones, clock, tasks, msgs, started, maxDone, lim>>

Next ==
    \/ \E p \in Peers, seq \in Seqs, v \in Values : Start(p, seq, v)
    \/ \E t \in Tasks : Generate(t)
    \/ \E t, u \in Tasks : GenerateTogether(t, u)
    \/ \E t \in Tasks : SendPrepare(t)
    \/ \E t \in Tasks : SendAccept(t)
    \/ \E t \in Tasks : BuildDecide(t)
    \/ \E t \in Tasks : SendDecide(t)
    \/ \E t \in Tasks : CheckMin(t)
    \/ \E t \in Tasks : CheckRead(t)
    \/ \E m \in msgs : Deliver(m)
    \/ \E p \in Peers, seq \in Seqs : Done(p, seq)
    \/ \E p \in Peers : CallMin(p)
    \/ \E p \in Peers, seq \in Seqs : CallStatus(p, seq)

Spec == Init /\ [][Next]_vars

\* The garbage-collection runs: up to GcTasks proposers run one after the
\* other, and a call that returns without a reply leaves its request, of any
\* kind, on the network.
GcSeq == 0
GcTasks == 3
GcClock == 1
GcInFlight == 1

InitGC ==
    /\ Make
    /\ lim = [seqs |-> GcSeq, tasks |-> GcTasks, active |-> 1, clock |-> GcClock,
              inflight |-> GcInFlight, held |-> {"Prepare", "Accept", "Decide"},
              loss |-> FALSE, reach |-> {}]

NextGC ==
    \/ \E p \in Peers, seq \in Seqs, v \in Values : Start(p, seq, v)
    \/ \E t \in Tasks : Generate(t)
    \/ \E t \in Tasks : SendPrepare(t)
    \/ \E t \in Tasks : SendAccept(t)
    \/ \E t \in Tasks : BuildDecide(t)
    \/ \E t \in Tasks : SendDecide(t)
    \/ \E t \in Tasks : CheckMin(t)
    \/ \E t \in Tasks : CheckRead(t)
    \/ \E m \in msgs : Deliver(m)
    \/ \E p \in Peers, seq \in Seqs : Done(p, seq)
    \/ \E p \in Peers : CallMin(p)
    \/ \E p \in Peers, seq \in Seqs : CallStatus(p, seq)

SpecGC == InitGC /\ [][NextGC]_vars

\* -------------------------------------------------------------------- claims
\* What Status(seq) returns on peer p when called in the current state.
StatusNow(p, seq) == Status(instances[p], dones[p], p, seq)

\* C1: Agreement.  For every seq and every two peers, if Status(seq) returns
\* Decided on both, it returns the same value on both.
C1_Agreement ==
    \A seq \in Seqs, p, q \in Peers :
        (StatusNow(p, seq)[1] = "Decided" /\ StatusNow(q, seq)[1] = "Decided")
            => StatusNow(p, seq)[2] = StatusNow(q, seq)[2]

\* The seqs peer p holds an entry for before and after the step.
Kept(p) == (DOMAIN instances[p]) \cap (DOMAIN instances'[p])

\* C2: Decided is stable per peer.  Once the entry of seq on a peer is Decided
\* with v_a = v, every step that keeps the entry leaves it Decided with v_a = v.
C2_DecidedStable ==
    [][\A p \in Peers : \A seq \in Kept(p) :
          instances[p][seq].state = "Decided"
              => /\ instances'[p][seq].state = "Decided"
                 /\ instances'[p][seq].v_a = instances[p][seq].v_a]_vars

\* C3: Store-level agreement.  Any two peers whose stores hold a Decided entry
\* for the same seq hold the same v_a.
C3_StoreAgreement ==
    \A p, q \in Peers : \A seq \in (DOMAIN instances[p]) \cap (DOMAIN instances[q]) :
        (instances[p][seq].state = "Decided" /\ instances[q][seq].state = "Decided")
            => instances[p][seq].v_a = instances[q][seq].v_a

\* C6: Monotonicity of promises and acceptances.  Across every step, n_p and
\* n_a of every entry that the step keeps do not decrease.
C6_Monotonic ==
    [][\A p \in Peers : \A seq \in Kept(p) :
          /\ StrGeq(instances'[p][seq].n_p, instances[p][seq].n_p)
          /\ StrGeq(instances'[p][seq].n_a, instances[p][seq].n_a)]_vars

\* C7: Done vector monotonicity.  No slot of any peer's done vector decreases
\* across any step.
C7_DonesMonotonic ==
    [][\A p, i \in Peers : dones'[p][i] >= dones[p][i]]_vars

\* The runs over a log of two instances: LogTasks proposers run one after the
\* other and calls may be lost.
LogSeq == 1
LogTasks == 2
LogClock == 1

InitLog ==
    /\ Make
    /\ lim = [seqs |-> LogSeq, tasks |-> LogTasks, active |-> 1, clock |-> LogClock,
              inflight |-> 0, held |-> {}, loss |-> TRUE, reach |-> {}]

NextLog ==
    \/ \E p \in Peers, seq \in Seqs, v \in Values : Start(p, seq, v)
    \/ \E t \in Tasks : Generate(t)
    \/ \E t \in Tasks : SendPrepare(t)
    \/ \E t \in Tasks : SendAccept(t)
    \/ \E t \in Tasks : BuildDecide(t)
    \/ \E t \in Tasks : SendDecide(t)
    \/ \E t \in Tasks : CheckMin(t)
    \/ \E t \in Tasks : CheckRead(t)
    \/ \E p \in Peers, seq \in Seqs : Done(p, seq)
    \/ \E p \in Peers : CallMin(p)
    \/ \E p \in Peers, seq \in Seqs : CallStatus(p, seq)

SpecLog == InitLog /\ [][NextLog]_vars

\* C4: Validity.  Whenever an entry of seq is Decided with value w on some
\* peer, w was handed to Start(seq, w) on some peer for that same seq.
C4_Validity ==
    \A p \in Peers : \A seq \in DOMAIN instances[p] :
        instances[p][seq].state = "Decided" => <<seq, instances[p][seq].v_a>> \in started

\* Both instances are decided, with different values.
C4_Witness ==
    \E p, q \in Peers :
        /\ 0 \in DOMAIN instances[p] /\ instances[p][0].state = "Decided"
        /\ 1 \in DOMAIN instances[q] /\ instances[q][1].state = "Decided"
        /\ instances[p][0].v_a # instances[q][1].v_a

\* The least of the highest arguments handed to Done, over all peers.
LeastDone == CHOOSE x \in {maxDone[i] : i \in Peers} : \A i \in Peers : x <= maxDone[i]

\* The bound of C8 on what Min() returns: on no peer more than 1 + LeastDone.
C8_MinBounded == \A p \in Peers : Min(dones[p], p) <= 1 + LeastDone

\* C8: No forgetting before Done.  A step deletes the entry of seq on a peer
\* only if Done was called with an argument >= seq on every peer, and Min()
\* never returns more than 1 + the least, over the peers, of the highest
\* argument handed to Done.
C8_NoForgettingBeforeDone ==
    /\ C8_MinBounded
    /\ [][/\ C8_MinBounded'
          /\ \A p \in Peers :
                \A seq \in (DOMAIN instances[p]) \ (DOMAIN instances'[p]) :
                    \A i \in Peers : maxDone[i] >= seq]_vars

\* A peer has pruned its entry of seq 0 while another peer still holds its own.
C8_Witness ==
    \E p, q \in Peers :
        /\ Min(dones[p], p) > 0 /\ 0 \notin DOMAIN instances[p]
        /\ Min(dones[q], q) = 0 /\ 0 \in DOMAIN instances[q]

\* C9: Forgetting below Min.  Whenever Min() runs on a peer and returns m,
\* the store it leaves behind holds no entry with seq < m, whatever the state
\* of the entries.
C9_ForgetBelowMin ==
    \A p \in Peers :
        \A seq \in DOMAIN MinStore(instances[p], dones[p], p) :
            seq >= Min(dones[p], p)

\* The largest key of a non-empty store.
LargestKey(store) == CHOOSE k \in DOMAIN store : \A j \in DOMAIN store : j <= k

\* C10: Max() returns the largest key of the peer's store, and -1 when the
\* store is empty.
C10_Max ==
    \A p \in Peers :
        Max(instances[p]) = IF DOMAIN instances[p] = {} THEN -1
                            ELSE LargestKey(instances[p])

\* The quiescent runs: the proposers run one after the other on peers of
\* lim.reach, a majority whose members answer every call; a call to a peer
\* outside it may be lost.  The goroutine inside propose keeps running.
LiveSeq == 0
LiveTasks == 2
LiveClock == 1

InitLive ==
    /\ Make
    /\ \E reach \in SUBSET Peers :
          /\ Cardinality(reach) >= majority
          /\ lim = [seqs |-> LiveSeq, tasks |-> LiveTasks, active |-> 1,
                    clock |-> LiveClock, inflight |-> 0, held |-> {}, loss |-> TRUE,
                    reach |-> reach]

\* One step of the goroutine of task t.
Proposes(t) ==
    \/ Generate(t)
    \/ SendPrepare(t)
    \/ SendAccept(t)
    \/ BuildDecide(t)
    \/ SendDecide(t)
    \/ CheckMin(t)
    \/ CheckRead(t)

NextLive ==
    \/ \E p \in lim.reach, seq \in Seqs, v \in Values : Start(p, seq, v)
    \/ \E t \in Tasks : Generate(t)
    \/ \E t \in Tasks : SendPrepare(t)
    \/ \E t \in Tasks : SendAccept(t)
    \/ \E t \in Tasks : BuildDecide(t)
    \/ \E t \in Tasks : SendDecide(t)
    \/ \E t \in Tasks : CheckMin(t)
    \/ \E t \in Tasks : CheckRead(t)
    \/ \E p \in Peers, seq \in Seqs : Done(p, seq)
    \/ \E p \in Peers : CallMin(p)
    \/ \E p \in Peers, seq \in Seqs : CallStatus(p, seq)

SpecLive == InitLive /\ [][NextLive]_vars /\ WF_vars(\E t \in Tasks : Proposes(t))

\* Peer p holds a Decided entry of seq.
DecidedAt(p, seq) == seq \in DOMAIN instances[p] /\ instances[p][seq].state = "Decided"

RoundSeq == 0
RoundTasks == 2
RoundActive == 2
RoundStart == 8
RoundClock == 10

InitRound ==
    /\ instances = [p \in Peers |-> <<>>]
    /\ dones = [p \in Peers |-> [i \in Peers |-> -1]]
    /\ clock = [p \in Peers |-> RoundStart]
    /\ tasks = <<>>
    /\ msgs = {}
    /\ started = {}
    /\ maxDone = [p \in Peers |-> -1]
    /\ seen = [p \in Peers |-> {}]
    /\ lim = [seqs |-> RoundSeq, tasks |-> RoundTasks, active |-> RoundActive,
              clock |-> RoundClock, inflight |-> 0, held |-> {}, loss |-> FALSE,
              reach |-> {}]

NextRound ==
    \/ \E p \in Peers, seq \in Seqs, v \in Values : Start(p, seq, v)
    \/ \E t \in Tasks : Generate(t)
    \/ \E t, u \in Tasks : GenerateTogether(t, u)
    \/ \E t \in Tasks : SendPrepare(t)
    \/ \E t \in Tasks : SendAccept(t)
    \/ \E t \in Tasks : BuildDecide(t)
    \/ \E t \in Tasks : SendDecide(t)
    \/ \E t \in Tasks : CheckMin(t)
    \/ \E t \in Tasks : CheckRead(t)
    \/ \E p \in Peers, seq \in Seqs : Done(p, seq)
    \/ \E p \in Peers : CallMin(p)
    \/ \E p \in Peers, seq \in Seqs : CallStatus(p, seq)

SpecRound == InitRound /\ [][NextRound]_vars

\* The step takes goroutine t through line 287: it holds a new round number.
Generates(t) == tasks[t].pc = "gen" /\ tasks'[t].pc = "prepare"

\* C11: Round-number discipline.  Under Go's comparison of the generated
\* strings, a round number a goroutine generates is greater than every round
\* number another goroutine of its peer holds from an earlier generation, two
\* goroutines of a peer that generate in the same step get different round
\* numbers, and goroutines of different peers never hold the same round number.
C11_RoundNumbers ==
    /\ [](\A t, u \in Tasks :
            (tasks[t].me # tasks[u].me /\ tasks[t].pnum # <<>>)
                => tasks[t].pnum # tasks[u].pnum)
    /\ [][\A t, u \in Tasks :
             (t # u /\ Generates(t) /\ tasks[t].me = tasks[u].me)
                 => /\ tasks[u].pnum # <<>>
                       => StrGreater(tasks'[t].pnum, tasks[u].pnum)
                    /\ Generates(u) => tasks'[t].pnum # tasks'[u].pnum]_vars

\* After the step, peer p holds the promise that Prepare(tk.seq, tk.pnum) leaves
\* when it answers OK.
Promised(p, tk) ==
    /\ tk.seq \in DOMAIN instances'[p]
    /\ instances'[p][tk.seq].n_p = tk.pnum

\* After the step, peer p holds what Accept(tk.seq, tk.pnum, tk.maxacval) leaves
\* when it answers OK.
Accepted(p, tk) ==
    /\ tk.seq \in DOMAIN instances'[p]
    /\ instances'[p][tk.seq].n_p = tk.pnum
    /\ instances'[p][tk.seq].n_a = tk.pnum
    /\ instances'[p][tk.seq].v_a = tk.maxacval

\* The step hands a Decide for seq to peer p: a goroutine's call, or a request
\* the network held back.
DecideHandled(p, seq) ==
    \/ \E t \in Tasks : /\ tasks[t].pc = "decide" /\ tasks[t].i = p /\ tasks[t].seq = seq
                        /\ tasks'[t] # tasks[t]
    \/ \E m \in msgs \ msgs' : m.type = "Decide" /\ m.to = p /\ m.seq = seq

\* C12: Chosen before Decided.  An entry becomes Decided only in a step that
\* hands a Decide to its peer.  A goroutine counts an OK reply only when the
\* peer holds the promise, or the acceptance, of its round; it goes from
\* Prepare to Accept only with a majority of OK replies to Prepare, and from
\* Accept to Decide only with a majority of OK replies to Accept, and it sends
\* Decide with the round number and the value of that Accept.
C12_ChosenBeforeDecided ==
    [][/\ \A p \in Peers : \A seq \in DOMAIN instances'[p] :
             (/\ instances'[p][seq].state = "Decided"
              /\ ~(seq \in DOMAIN instances[p] /\ instances[p][seq].state = "Decided"))
                 => DecideHandled(p, seq)
       /\ \A t \in Tasks :
             LET tk == tasks[t]
                 nx == tasks'[t]
                 one(b) == IF b THEN 1 ELSE 0
             IN  /\ (tk.pc = "prepare" /\ nx.pc = "prepare" /\ nx.acnum > tk.acnum)
                       => (nx.acnum = tk.acnum + 1 /\ Promised(tk.i, tk))
                 /\ (tk.pc = "accept" /\ nx.pc = "accept" /\ nx.accNum > tk.accNum)
                       => (nx.accNum = tk.accNum + 1 /\ Accepted(tk.i, tk))
                 /\ nx.pc = "accept" /\ tk.pc # "accept"
                       => /\ tk.pc = "prepare" /\ nx.pnum = tk.pnum
                          /\ tk.acnum + one(Promised(tk.i, tk)) >= (N \div 2) + 1
                 /\ nx.pc = "decargs" /\ tk.pc # "decargs"
                       => /\ tk.pc = "accept" /\ nx.pnum = tk.pnum
                          /\ nx.maxacval = tk.maxacval
                          /\ tk.accNum + one(Accepted(tk.i, tk)) >= (N \div 2) + 1
                 /\ nx.pc = "decide"
                       => /\ tk.pc \in {"decargs", "decide"}
                          /\ nx.pnum = tk.pnum /\ nx.maxacval = tk.maxacval]_vars

\* A goroutine sends Decide for an instance of which one peer holds no entry:
\* the majority that answered it is not all the peers.
C12_Witness ==
    \E t \in Tasks :
        /\ tasks[t].pc = "decide"
        /\ \E p \in Peers : tasks[t].seq \notin DOMAIN instances[p]

InStatus(t) == tasks[t].pc = "read"

\* C14: All mutable state is accessed only under the mutex of the peer.  While
\* a goroutine is inside Status, between the Min() it calls and its read of the
\* instance store, no step of another operation changes the store or the done
\* vector of its peer.
C14_UnderMutex ==
    [][\A t \in Tasks :
          (InStatus(t) /\ tasks'[t] = tasks[t])
              => /\ instances'[tasks[t].me] = instances[tasks[t].me]
                 /\ dones'[tasks[t].me] = dones[tasks[t].me]]_vars

\* C15: Proposer early exit.  A goroutine of propose starts no iteration, that
\* is, generates no round number, while its own peer holds its instance
\* Decided.
C15_EarlyExit ==
    [][\A t \in Tasks :
          Generates(t) => StatusRead(instances[tasks[t].me], tasks[t].seq)[1] # "Decided"]_vars

\* C16: In every reachable state every stored instance of every peer has
\* n_a <= n_p under the comparison of round numbers the handlers apply, in
\* which the empty round number is below every generated one.
C16_AcceptedBelowPromised ==
    \A p \in Peers : \A seq \in DOMAIN instances[p] :
        StrGeq(instances[p][seq].n_p, instances[p][seq].n_a)

\* A peer holds an accepted value under a round number strictly below its
\* promise, and a peer holds a decision.
C16_Witness ==
    /\ \E p \in Peers : \E seq \in DOMAIN instances[p] :
          /\ instances[p][seq].n_a # <<>>
          /\ StrGreater(instances[p][seq].n_p, instances[p][seq].n_a)
    /\ \E p \in Peers : \E seq \in DOMAIN instances[p] :
          /\ instances[p][seq].state = "Decided"
          /\ instances[p][seq].n_p = instances[p][seq].n_a

\* Peer p has to refuse Accept(seq, pnum, ..): it holds no entry of seq, or a
\* promise above pnum.
Refuses(p, seq, pnum) ==
    \/ seq \notin DOMAIN instances[p]
    \/ ~StrGeq(pnum, instances[p][seq].n_p)

\* C17: Accept without prior state is rejected and leaves the peer unchanged.
\* When a peer is handed an Accept for an instance of which it holds no entry,
\* or with a round number below its promise, by the call of a goroutine or by
\* the network, its store and its done vector stay as they were, no entry is
\* made, and the goroutine does not count the reply as OK.
C17_AcceptRejected ==
    [][/\ \A t \in Tasks :
             LET tk == tasks[t]
                 nx == tasks'[t]
             IN  (tk.pc = "accept" /\ nx # tk /\ Refuses(tk.i, tk.seq, tk.pnum))
                    => /\ instances'[tk.i] = instances[tk.i]
                       /\ dones'[tk.i] = dones[tk.i]
                       /\ nx.pc = "accept" => nx.accNum = tk.accNum
                       /\ nx.pc = "decargs" => tk.accNum >= (N \div 2) + 1
       /\ \A m \in msgs \ msgs' :
             (m.type = "Accept" /\ Refuses(m.to, m.seq, m.pnum))
                 => /\ instances'[m.to] = instances[m.to]
                    /\ dones'[m.to] = dones[m.to]]_vars

\* A goroutine has called Accept on peer 0, which held no entry of its instance
\* and holds none now, and no reply was counted: every call of these runs is
\* served or stays on the network, and no Accept is on the network.
C17_Witness ==
    \E t \in Tasks :
        /\ tasks[t].pc = "accept" /\ tasks[t].i = 1 /\ tasks[t].accNum = 0
        /\ tasks[t].me # 0
        /\ tasks[t].seq \notin DOMAIN instances[0]
        /\ ~lim.loss
        /\ \A m \in msgs : m.type # "Accept"

\* The round numbers the peers can generate within the clock of the run.
PNums == {generatePNum(now, me) : now \in 1 .. lim.clock, me \in Peers}

\* C18: Handler idempotence.  In every reachable state, for every peer and
\* every message, handing the peer the same Prepare, Accept or Decide a second
\* time right after the first leaves the store and the done vector the first
\* left, and brings the same reply.
C18_Idempotent ==
    \A p \in Peers, seq \in Seqs, pnum \in PNums :
        /\ LET r == Prepare(instances[p], seq, pnum)
           IN  Prepare(r.store, seq, pnum) = r
        /\ \A v \in Values :
              /\ LET r == Accept(instances[p], seq, pnum, v)
                 IN  Accept(r.store, seq, pnum, v) = r
              /\ LET s == DecideStore(instances[p], seq, pnum, v)
                 IN  DecideStore(s, seq, pnum, v) = s
        /\ \A me \in Peers, done \in -1 .. lim.seqs :
              LET d == DecideDone(dones[p][me], done)
              IN  DecideDone(d, done) = d

\* Peer 0 holds an accepted value of an earlier round and has just answered OK
\* to the Prepare of a goroutine of another peer, which raised its promise: a
\* second Prepare of that round finds the promise equal to its round number.
C18_Witness ==
    \E t \in Tasks :
        /\ tasks[t].pc = "prepare" /\ tasks[t].i = 1 /\ tasks[t].acnum = 1
        /\ tasks[t].me # 0
        /\ tasks[t].seq \in DOMAIN instances[0]
        /\ instances[0][tasks[t].seq].n_p = tasks[t].pnum
        /\ instances[0][tasks[t].seq].n_a # <<>>
        /\ instances[0][tasks[t].seq].n_a # tasks[t].pnum

\* The runs in which an instance is forgotten: up to ForgetTasks proposers run
\* one after the other for the instances 0 .. ForgetSeq, all with the same
\* value, every call is answered, and the applications ask about instance 0
\* and are done with it once they have seen it decided.
ForgetSeq == 1
ForgetTasks == 4
ForgetClock == 2

InitForget ==
    /\ Make
    /\ lim = [seqs |-> ForgetSeq, tasks |-> ForgetTasks, active |-> 1,
              clock |-> ForgetClock, inflight |-> 0, held |-> {}, loss |-> FALSE,
              reach |-> {}]

NextForget ==
    \/ \E p \in Peers, seq \in Seqs : Start(p, seq, FirstValue)
    \/ \E t \in Tasks : Generate(t)
    \/ \E t \in Tasks : SendPrepare(t)
    \/ \E t \in Tasks : SendAccept(t)
    \/ \E t \in Tasks : BuildDecide(t)
    \/ \E t \in Tasks : SendDecide(t)
    \/ \E t \in Tasks : CheckMin(t)
    \/ \E t \in Tasks : CheckRead(t)
    \/ \E p \in Peers : Done(p, 0)
    \/ \E p \in Peers : CallStatus(p, 0)

SpecForget == InitForget /\ [][NextForget]_vars

\* C19: Status never regresses.  On a peer where a call of Status(seq) has
\* returned Decided, a call of Status(seq) does not return Pending.
C19_StatusNeverRegresses ==
    \A p \in Peers : \A seq \in seen[p] :
        Status(instances[p], dones[p], p, seq)[1] # "Pending"

\* C20: No proposing into forgotten slots.  A goroutine of propose starts no
\* round, that is, generates no round number, while its instance is below
\* Min() on its peer, and a goroutine that finds its instance below Min() when
\* it asks for its Status ends instead of going back to the top of the loop.
C20_NoForgottenRound ==
    [][\A t \in Tasks :
          LET below == tasks[t].seq < Min(dones[tasks[t].me], tasks[t].me)
          IN  /\ Generates(t) => ~below
              /\ (tasks[t].pc = "status" /\ tasks'[t] # tasks[t] /\ below)
                    => tasks'[t].pc = "done"]_vars

====
